---- MODULE Spec2Model ----
(***************************************************************************)
(* A model of the Reddit ETL pipeline of src/script.py: the batch loop of  *)
(* main(), RedditETL.run_pipeline and the adapters it calls, the SQLite    *)
(* relations they write, and the feature transformation.                   *)
(*                                                                         *)
(* A post record carries the attributes the pipeline's control flow, the   *)
(* primary keys and the rollup read: id, subreddit, score, num_comments,   *)
(* created_utc (reduced to its calendar date), title (a sequence of        *)
(* one-character strings) and the two derived columns engagement_rate and  *)
(* score_category.                                                         *)
(***************************************************************************)
EXTENDS Integers, Sequences, FiniteSets, TLC

\* ------------------------------------------------------------------ bounds
MaxSubs == 2        \* longest subreddit list given to the batch loop
MaxFeed == 2        \* most records the Source's feed yields for one listing
MaxTitle == 3       \* longest title given to the title cleaning on its own
MaxFrame == 11      \* most rows of a frame given to the comment stage on its own
ScoreSpan == 1002   \* single-post batches take every score in -ScoreSpan..ScoreSpan

\* ------------------------------------------------------- program constants
posts_per_subreddit == 50      \* main: limit passed to run_pipeline
TopN == 10                     \* run_pipeline: nlargest(10, 'score')
CommentLimit == 20             \* run_pipeline: extract_comments(post_id, limit=20)

\* ------------------------------------------------------------ the Source
SubNames == {"python", "datascience"}
PostIdsOf(sub) == IF sub = "python" THEN {"p1", "p2"} ELSE {"d1"}
PipelineScores == {5, 15}
PipelineComments == {3}
Dates == {1, 2}
\* A submission's creation date never changes; its score and comment count do.
CreatedOf(id) == IF id = "d1" THEN 2 ELSE 1
\* The comments the Source holds under a post.
CommentIdsOf(post_id) == IF post_id = "p1" THEN {"c1"} ELSE {}

\* The characters a title is made of, by the classes the cleaning tells
\* apart: a letter and a digit, the underscore, a blank, and punctuation.
Alnum == {"a", "7"}
Underscore == {"_"}
Whitespace == {" "}
Punctuation == {"!", "#"}
Chars == Alnum \cup Underscore \cup Whitespace \cup Punctuation
\* The title of each submission of the Source.
TitleOf(id) ==
    IF id = "p1" THEN <<" ", "a", "_", "7", "!">>
    ELSE IF id = "p2" THEN <<"#", "a", " ", "7">>
    ELSE <<"a">>

SeqsUpTo(S, n) == UNION {[1..k -> S] : k \in 0..n}
Min(a, b) == IF a < b THEN a ELSE b
Distinct(s) == \A i, j \in 1..Len(s) : i # j => s[i].id # s[j].id

\* One submission as the Source serves it (the attributes read at lines 131-147).
Submissions(sub, scores, counts) ==
    {[id |-> i, title |-> TitleOf(i), subreddit |-> sub, score |-> sc,
      num_comments |-> n, created_utc |-> CreatedOf(i)] :
        i \in PostIdsOf(sub), sc \in scores, n \in counts}

\* What iterating subreddit.hot(limit=limit) can yield: at most `limit` distinct
\* submissions of that subreddit.
Feeds(sub, limit, scores, counts) ==
    {f \in SeqsUpTo(Submissions(sub, scores, counts), Min(limit, MaxFeed)) : Distinct(f)}

\* ------------------------------------------------------------------ state
VARIABLES
    subreddits,      \* main: the list the batch loop walks
    extract_comments,\* main: the flag passed to every run_pipeline call
    idx,             \* main: index of the next subreddit of the loop
    mainPc,          \* main: "loop" | "done"
    pc,              \* run_pipeline: the statement the current run is at
    posts_data,      \* run_pipeline local
    transformed_df,  \* run_pipeline local
    top_posts,       \* run_pipeline local: the ids the comment loop has left
    comments,        \* run_pipeline local: the last extract_comments result
    posts,           \* Store: relation posts
    comments_tbl,    \* Store: relation comments
    subreddit_stats, \* Store: relation subreddit_stats
    today,           \* Store clock: DATE('now')
    conn_open,       \* some connection this process opened was left without close()
    started,         \* history: subreddits whose run was started, in order
    trace,           \* history: adapter calls of the current run, in order
    loadOk,          \* history: load_posts of the current run inserted its rows
    called,          \* history: the extract_comments calls of the current run
    failed,          \* history: the Source and comment adapters whose handler
                     \*          caught an exception in the current run
    lastStat         \* history: what the last rollup did to subreddit_stats

vars == <<subreddits, extract_comments, idx, mainPc, pc, posts_data,
          transformed_df, top_posts, comments, posts, comments_tbl,
          subreddit_stats, today, conn_open, started, trace, loadOk, called,
          failed, lastStat>>


\* --------------------------------------------------- the Feature Transformer
RECURSIVE Gcd(_, _)
Gcd(a, b) == IF b = 0 THEN a ELSE Gcd(b, a % b)
Abs(n) == IF n < 0 THEN -n ELSE n

\* The quotient n / d of two integers, d # 0, as a fraction in lowest terms
\* with a positive denominator.
Frac(n, d) ==
    LET g == Gcd(Abs(n), Abs(d))
        sgn == IF d < 0 THEN -1 ELSE 1
    IN [num |-> sgn * (n \div g), den |-> sgn * (d \div g)]

\* Elementwise float division of two integer columns: a zero divisor raises
\* nothing and yields inf, -inf or nan.
FloatDiv(n, d) ==
    IF d # 0 THEN Frac(n, d)
    ELSE IF n > 0 THEN "inf" ELSE IF n < 0 THEN "-inf" ELSE "nan"

\* df['num_comments'] / (df['score'] + 1)
engagement_rate(num_comments, score) == FloatDiv(num_comments, score + 1)

\* pd.cut(score, bins=[-inf, 0, 10, 100, 1000, inf], labels=[...]): the inner
\* bin edges and the labels, in order.
BinEdges == <<0, 10, 100, 1000>>
BinLabels == <<"Negative", "Low", "Medium", "High", "Viral">>

\* Bin i is [edge[i-1], edge[i]): what pd.cut computes with right=False.
InBinLeftClosed(score, i) ==
    /\ (i = 1 \/ BinEdges[i - 1] <= score)
    /\ (i = Len(BinLabels) \/ score < BinEdges[i])

\* Bin i is (edge[i-1], edge[i]]: pd.cut's default right=True.
InBin(score, i) ==
    /\ (i = 1 \/ BinEdges[i - 1] < score)
    /\ (i = Len(BinLabels) \/ score <= BinEdges[i])

\* The label of the bin that holds the score; "NaN" when no bin does.
score_category(score) ==
    LET hits == {i \in 1..Len(BinLabels) : InBin(score, i)}
    IN IF hits = {} THEN "NaN" ELSE BinLabels[CHOOSE i \in hits : TRUE]

\* The regular expression classes of the title cleaning: \w is the
\* alphanumerics and the underscore, \s is the whitespace.
ReWord == Alnum \cup Underscore
ReSpace == Whitespace

\* str.replace(r'[^\w\s]', '', regex=True): every character outside the two
\* classes is deleted, the others stay in place.
re_sub(title) == SelectSeq(title, LAMBDA c : c \in ReWord \cup ReSpace)

RECURSIVE lstrip(_)
lstrip(t) == IF t # <<>> /\ Head(t) \in ReSpace THEN lstrip(Tail(t)) ELSE t

RECURSIVE rstrip(_)
rstrip(t) ==
    IF t # <<>> /\ t[Len(t)] \in ReSpace THEN rstrip(SubSeq(t, 1, Len(t) - 1)) ELSE t

\* str.strip(): leading and trailing whitespace removed.
str_strip(t) == rstrip(lstrip(t))

\* df['title'].str.replace(...).str.strip()
clean_title(title) == str_strip(re_sub(title))

\* One row of the enriched frame: the raw attributes, the cleaned title and
\* the derived columns.
EnrichRow(r) ==
    [id |-> r.id, title |-> clean_title(r.title),
     subreddit |-> r.subreddit, score |-> r.score,
     num_comments |-> r.num_comments, created_utc |-> r.created_utc,
     engagement_rate |-> engagement_rate(r.num_comments, r.score),
     score_category |-> score_category(r.score)]

RECURSIVE SelectSeq2(_, _)
\* The subsequence of s whose rows satisfy keep (keep is a set of rows).
SelectSeq2(s, keep) ==
    IF s = <<>> THEN <<>>
    ELSE IF Head(s) \in keep THEN <<Head(s)>> \o SelectSeq2(Tail(s), keep)
    ELSE SelectSeq2(Tail(s), keep)

\* The same assignments after a filter that drops the rows whose divisor is
\* zero: what transform_data would do if it cleaned such rows away.
EnrichDropping(raw) ==
    LET good == {raw[i] : i \in {j \in 1..Len(raw) : raw[j].score + 1 # 0}}
        kept == SelectSeq2(raw, good)
    IN [i \in 1..Len(kept) |-> EnrichRow(kept[i])]

\* The columnwise assignments of transform_data: every row of the frame gets
\* its derived columns, no row is added, dropped or moved.
Enrich(raw) == [i \in 1..Len(raw) |-> EnrichRow(raw[i])]

\* transform_data: the frame it returns; `raises` is an exception anywhere in
\* its try block, which the handler turns into the empty frame.
transform_data(raw, raises) ==
    IF raw = <<>> THEN <<>>
    ELSE IF raises THEN <<>>
    ELSE Enrich(raw)

\* --------------------------------------------------------- the orchestrator
RECURSIVE NLargestLast(_, _)
\* DataFrame.nlargest(n, 'score', keep='last'): among rows of equal score the
\* later row of the frame comes first.
NLargestLast(df, n) ==
    IF n = 0 \/ df = <<>> THEN <<>>
    ELSE LET best == CHOOSE i \in 1..Len(df) :
                       /\ \A j \in 1..Len(df) : df[j].score <= df[i].score
                       /\ \A j \in (i + 1)..Len(df) : df[j].score < df[i].score
             rest == [k \in 1..(Len(df) - 1) |-> IF k < best THEN df[k] ELSE df[k + 1]]
         IN <<df[best]>> \o NLargestLast(rest, n - 1)

RECURSIVE NLargest(_, _)
\* DataFrame.nlargest(n, 'score') with keep='first': the n rows of highest
\* score, highest first, rows of equal score in the frame's order.
NLargest(df, n) ==
    IF n = 0 \/ df = <<>> THEN <<>>
    ELSE LET best == CHOOSE i \in 1..Len(df) :
                       /\ \A j \in 1..Len(df) : df[j].score <= df[i].score
                       /\ \A j \in 1..(i - 1) : df[j].score < df[i].score
             rest == [k \in 1..(Len(df) - 1) |-> IF k < best THEN df[k] ELSE df[k + 1]]
         IN <<df[best]>> \o NLargest(rest, n - 1)

Ids(s) == [i \in 1..Len(s) |-> s[i].id]
Range(s) == {s[i] : i \in 1..Len(s)}

\* ------------------------------------------------------------- the Store
\* The primary key of relation posts and of relation comments is id.
PkConflict(tbl, rows) ==
    \/ \E r \in tbl : \E i \in 1..Len(rows) : r.id = rows[i].id
    \/ ~Distinct(rows)

\* An insert into a relation that declares no key: every row is stored.
InsertNoKey(tbl, rows) == [ok |-> TRUE, tbl |-> tbl \cup Range(rows)]

\* An insert that replaces the stored row of the same id (INSERT OR REPLACE).
InsertUpsert(tbl, rows) ==
    [ok |-> TRUE,
     tbl |-> {r \in tbl : \A i \in 1..Len(rows) : r.id # rows[i].id} \cup Range(rows)]

RECURSIVE InsertPartial(_, _)
\* An insert that stores row after row and stops at the first key conflict
\* without undoing the rows before it (autocommit, one statement per row).
InsertPartial(tbl, rows) ==
    IF rows = <<>> THEN [ok |-> TRUE, tbl |-> tbl]
    ELSE IF \E r \in tbl : r.id = Head(rows).id THEN [ok |-> FALSE, tbl |-> tbl]
    ELSE InsertPartial(tbl \cup {Head(rows)}, Tail(rows))

\* DataFrame.to_sql(name, conn, if_exists='append') on a relation created with
\* id PRIMARY KEY: the rows are inserted in one transaction, which a key
\* conflict rolls back whole. ok tells whether to_sql returned.
InsertRows(tbl, rows) ==
    IF PkConflict(tbl, rows) THEN [ok |-> FALSE, tbl |-> tbl]
    ELSE [ok |-> TRUE, tbl |-> tbl \cup Range(rows)]

RECURSIVE SumScore(_)
SumScore(rows) ==
    IF rows = {} THEN 0
    ELSE LET r == CHOOSE x \in rows : TRUE IN r.score + SumScore(rows \ {r})

RECURSIVE SumComments(_)
SumComments(rows) ==
    IF rows = {} THEN 0
    ELSE LET r == CHOOSE x \in rows : TRUE IN r.num_comments + SumComments(rows \ {r})

MaxScore(rows) == CHOOSE m \in {r.score : r \in rows} : \A r \in rows : r.score <= m

\* WHERE subreddit = ? AND DATE(created_utc) = DATE('now')
Matching(tbl, sub, day) == {r \in tbl : r.subreddit = sub /\ r.created_utc = day}

\* The one group of GROUP BY subreddit, DATE(created_utc) over the matching
\* rows (rows is not empty).
Aggregate(rows, sub, day) ==
    [subreddit |-> sub, date |-> day,
     total_posts |-> Cardinality(rows),
     avg_score |-> Frac(SumScore(rows), Cardinality(rows)),
     avg_comments |-> Frac(SumComments(rows), Cardinality(rows)),
     top_post_score |-> MaxScore(rows)]

SameKey(a, b) == a.subreddit = b.subreddit /\ a.date = b.date

\* A plain INSERT into a relation without the composite key.
StatInsertPlain(stats, row) == stats \cup {row}

\* INSERT OR REPLACE with PRIMARY KEY (subreddit, date).
StatInsertOrReplace(stats, row) == {s \in stats : ~SameKey(s, row)} \cup {row}

\* The statement of generate_subreddit_stats: the SELECT yields one row per
\* group, so no row at all when no post matches.
StatsStatement(postsTbl, stats, sub, day) ==
    LET m == Matching(postsTbl, sub, day)
    IN IF m = {} THEN stats ELSE StatInsertOrReplace(stats, Aggregate(m, sub, day))

\* ------------------------------------------------------------ comments
CommentsOf(post_id) == [id : CommentIdsOf(post_id), post_id : {post_id}]

\* submission.comments.list()[:limit], the entries that have a body.
Threads(post_id, limit) ==
    {t \in SeqsUpTo(CommentsOf(post_id), Min(limit, Cardinality(CommentIdsOf(post_id)))) :
       Distinct(t)}

\* ---------------------------------------------------------- control flow
\* run_pipeline after extract_posts: an empty result stops the run.
after_extract_rollup(raw) == IF raw = <<>> THEN "stats" ELSE "transform"

after_extract(raw) == IF raw = <<>> THEN "returned" ELSE "transform"

\* extract_posts whose handler hands back what the loop had appended.
extract_posts_partial(feed, fetched, fails) ==
    IF fails THEN SubSeq(feed, 1, fetched) ELSE feed

\* extract_posts: the list it returns when the Source would serve `feed`;
\* `fails` is an exception in the try block after `fetched` records were
\* appended to posts_data, which the handler answers with [].
extract_posts(feed, fetched, fails) == IF fails THEN <<>> ELSE feed

\* load_comments without its handler: a failed to_sql raises to run_pipeline.
after_load_comments_raise(ok) == IF ok THEN "sleep" ELSE "raised"

\* run_pipeline after load_comments, which returns normally whether to_sql
\* worked or not: time.sleep(1) is next.
after_load_comments(ok) == "sleep"

\* run_pipeline after transform_data: an empty frame stops the run.
after_transform(df) == IF df = <<>> THEN "returned" ELSE "load"

\* main without its try/except: an exception of a run ends the process.
main_no_except == "done"

\* main's handler of an exception of run_pipeline: log, continue the loop.
main_except == "loop"

subreddit_name == subreddits[idx]
RunOver == pc \in {"idle", "returned", "raised"}

\* ------------------------------------------------------------------ Init
\* The state after RedditETL(...) was constructed over a new database file:
\* setup_database created the three relations, empty. The list may name a
\* subreddit twice: its second run then extracts over what the first stored.
Init ==
    /\ subreddits \in SeqsUpTo(SubNames, MaxSubs)
    /\ extract_comments \in BOOLEAN
    /\ idx = 0
    /\ mainPc = "loop"
    /\ pc = "idle"
    /\ posts_data = <<>>
    /\ transformed_df = <<>>
    /\ top_posts = <<>>
    /\ comments = <<>>
    /\ posts = {}
    /\ comments_tbl = {}
    /\ subreddit_stats = {}
    /\ today = 1
    /\ conn_open = FALSE
    /\ started = <<>>
    /\ trace = <<>>
    /\ loadOk = FALSE
    /\ called = <<>>
    /\ failed = {}
    /\ lastStat = "none"

store == <<posts, comments_tbl, subreddit_stats, conn_open, lastStat>>
locals == <<posts_data, transformed_df, top_posts, comments>>
config == <<subreddits, extract_comments, today>>

\* --------------------------------------------------------------- actions
\* main: one iteration of `for subreddit in subreddits` enters run_pipeline.
MainLoop ==
    /\ mainPc = "loop" /\ RunOver
    /\ idx < Len(subreddits)
    /\ idx' = idx + 1
    /\ started' = Append(started, subreddits[idx + 1])
    /\ pc' = "extract"
    /\ posts_data' = <<>> /\ transformed_df' = <<>>
    /\ top_posts' = <<>> /\ comments' = <<>>
    /\ trace' = <<>>
    /\ loadOk' = FALSE
    /\ called' = <<>>
    /\ failed' = {}
    /\ lastStat' = "none"
    /\ UNCHANGED <<config, mainPc, posts, comments_tbl, subreddit_stats, conn_open>>

\* main: the loop is exhausted, "ETL pipeline execution completed!".
MainDone ==
    /\ mainPc = "loop" /\ RunOver
    /\ idx = Len(subreddits)
    /\ mainPc' = "done"
    /\ UNCHANGED <<config, idx, pc, locals, store, started, called, failed, trace, loadOk>>

\* extract_posts and the check of its result; `fails` is a Source failure
\* during the listing, which the adapter turns into [].
ExtractPosts ==
    /\ pc = "extract"
    /\ \E feed \in Feeds(subreddit_name, posts_per_subreddit, PipelineScores, PipelineComments),
          fails \in BOOLEAN :
         \E fetched \in 0..Len(feed) :
           LET result == extract_posts(feed, fetched, fails)
           IN /\ posts_data' = result
              /\ pc' = after_extract(result)
              /\ failed' = IF fails THEN failed \cup {"extract_posts"} ELSE failed
    /\ trace' = Append(trace, "listPosts")
    /\ UNCHANGED <<config, idx, mainPc, transformed_df, top_posts, comments,
                   store, started, called, loadOk>>

\* transform_data and the check of its result.
TransformData ==
    /\ pc = "transform"
    /\ \E raises \in BOOLEAN :
         /\ transformed_df' = transform_data(posts_data, raises)
         /\ pc' = after_transform(transformed_df')
    /\ trace' = Append(trace, "transform")
    /\ UNCHANGED <<config, idx, mainPc, posts_data, top_posts, comments,
                   store, started, called, failed, loadOk>>

\* load_posts; `fails` is a failure of the Store during to_sql other than a
\* key conflict. Either failure is logged and swallowed, and conn.close() is
\* skipped.
LoadPosts ==
    /\ pc = "load"
    /\ \E fails \in BOOLEAN :
         LET res == IF fails THEN [ok |-> FALSE, tbl |-> posts]
                    ELSE InsertRows(posts, transformed_df)
         IN /\ posts' = res.tbl
            /\ loadOk' = res.ok
            /\ conn_open' = (conn_open \/ ~res.ok)
    /\ trace' = Append(trace, "appendPosts")
    /\ pc' = IF extract_comments THEN "select" ELSE "stats"
    /\ UNCHANGED <<config, idx, mainPc, locals, comments_tbl, subreddit_stats,
                   lastStat, started, called, failed>>

\* transformed_df.nlargest(10, 'score')['id'].tolist(): the one statement of
\* the comment stage outside every adapter; `unexpected` is an exception in
\* it, which run_pipeline logs and re-raises to main.
SelectTop ==
    /\ pc = "select"
    /\ \E unexpected \in BOOLEAN :
         IF unexpected
         THEN /\ pc' = "raised"
              /\ mainPc' = main_except
              /\ top_posts' = top_posts
         ELSE /\ top_posts' = Ids(NLargest(transformed_df, TopN))
              /\ pc' = IF top_posts' = <<>> THEN "stats" ELSE "comments"
              /\ mainPc' = mainPc
    /\ UNCHANGED <<config, idx, posts_data, transformed_df, comments, store,
                   started, called, failed, trace, loadOk>>

\* extract_comments(post_id, limit=20); `fails` is a Source failure.
ExtractComments ==
    /\ pc = "comments"
    /\ \E thread \in Threads(Head(top_posts), CommentLimit), fails \in BOOLEAN :
         /\ comments' = IF fails THEN <<>> ELSE thread
         /\ failed' = IF fails THEN failed \cup {"extract_comments"} ELSE failed
    /\ called' = Append(called, [post_id |-> Head(top_posts), limit |-> CommentLimit])
    /\ trace' = Append(trace, "listComments")
    /\ pc' = "load_comments"
    /\ UNCHANGED <<config, idx, mainPc, posts_data, transformed_df, top_posts,
                   store, started, loadOk>>

\* load_comments: nothing is opened for an empty list; a failure of to_sql
\* is logged and swallowed, and conn.close() is skipped.
LoadComments ==
    /\ pc = "load_comments"
    /\ IF comments = <<>>
       THEN /\ UNCHANGED <<comments_tbl, conn_open, failed>>
            /\ pc' = after_load_comments(TRUE)
       ELSE \E fails \in BOOLEAN :
              LET res == IF fails THEN [ok |-> FALSE, tbl |-> comments_tbl]
                         ELSE InsertRows(comments_tbl, comments)
              IN /\ comments_tbl' = res.tbl
                 /\ conn_open' = (conn_open \/ ~res.ok)
                 /\ failed' = IF res.ok THEN failed ELSE failed \cup {"load_comments"}
                 /\ pc' = after_load_comments(res.ok)
    /\ trace' = Append(trace, "appendComments")
    /\ UNCHANGED <<config, idx, mainPc, locals, posts, subreddit_stats, lastStat,
                   started, called, loadOk>>

\* time.sleep(1) and the step of `for post_id in top_posts`.
Sleep ==
    /\ pc = "sleep"
    /\ top_posts' = Tail(top_posts)
    /\ comments' = <<>>    \* dead until the next iteration binds it again
    /\ trace' = Append(trace, "pause")
    /\ pc' = IF Tail(top_posts) = <<>> THEN "stats" ELSE "comments"
    /\ UNCHANGED <<config, idx, mainPc, posts_data, transformed_df,
                   store, started, called, failed, loadOk>>

\* generate_subreddit_stats and the return of run_pipeline; `fails` is a
\* failure of the Store in execute or commit, logged and swallowed with the
\* connection left open.
GenerateStats ==
    /\ pc = "stats"
    /\ \E fails \in BOOLEAN :
         IF fails
         THEN /\ subreddit_stats' = subreddit_stats
              /\ conn_open' = TRUE
              /\ lastStat' = "error"
         ELSE /\ subreddit_stats' =
                   StatsStatement(posts, subreddit_stats, subreddit_name, today)
              /\ conn_open' = conn_open
              /\ lastStat' =
                   IF Matching(posts, subreddit_name, today) = {} THEN "nomatch"
                   ELSE IF \E s \in subreddit_stats :
                             s.subreddit = subreddit_name /\ s.date = today
                        THEN "replace" ELSE "insert"
    /\ trace' = Append(trace, "upsertDailyStat")
    /\ pc' = "returned"
    /\ UNCHANGED <<config, idx, mainPc, locals, posts, comments_tbl, started, called, failed,
                   loadOk>>

\* The Store's clock passes midnight.
Midnight ==
    /\ today + 1 \in Dates
    /\ today' = today + 1
    /\ UNCHANGED <<subreddits, extract_comments, idx, mainPc, pc, locals, store,
                   started, called, failed, trace, loadOk>>

\* The steps of the single thread of one execution of the script.
Step ==
    \/ MainLoop
    \/ MainDone
    \/ ExtractPosts
    \/ TransformData
    \/ LoadPosts
    \/ SelectTop
    \/ ExtractComments
    \/ LoadComments
    \/ Sleep
    \/ GenerateStats

Next ==
    \/ Step
    \/ Midnight

Spec == Init /\ [][Next]_vars

\* Every call returns and the thread runs on: the Source answers, the sleeps
\* end.
FairSpec == Spec /\ WF_vars(Step)

\* ------------------------------------------------------------------ claims
IsPrefix(s, t) == Len(s) <= Len(t) /\ \A i \in 1..Len(s) : s[i] = t[i]

\* C1: whatever the stages of the runs do, an exception of a run included,
\* the batch loop starts the run of each subreddit of its list exactly once,
\* in list order (the runs started so far are always a prefix of the list),
\* and the loop always reaches batch completion with every run started.
C1_BatchRunsEverySubreddit ==
    /\ [](IsPrefix(started, subreddits) /\ Len(started) = idx)
    /\ ((mainPc = "loop") ~> (mainPc = "done" /\ started = subreddits))

\* A run raised to main while subreddits of the list were still to come.
C1_Witness == pc = "raised" /\ mainPc = "loop" /\ idx < Len(subreddits)

InRun == pc \notin {"idle", "extract"}
Has(call) == \E i \in 1..Len(trace) : trace[i] = call

\* C2: in a run whose listPosts returned the empty sequence, listPosts is the
\* only adapter call (no appendPosts, appendComments, upsertDailyStat, and no
\* listComments), the run has returned without raising, and the batch loop
\* can take its next step.
C2_EmptyExtractionStops ==
    (InRun /\ posts_data = <<>>) =>
        /\ trace = <<"listPosts">>
        /\ pc = "returned"
        /\ (mainPc = "loop" => ENABLED (MainLoop \/ MainDone))

\* The second run of a batch, over a Store that holds posts, ended on an
\* empty extraction and the loop is still running.
C2_Witness ==
    /\ pc = "returned" /\ posts_data = <<>> /\ trace = <<"listPosts">>
    /\ posts # {} /\ idx = 2 /\ mainPc = "loop"

\* The calls of a run come in the order listPosts, transform, appendPosts,
\* then listComments, appendComments, pause per selected post, then
\* upsertDailyStat.
RECURSIVE CommentRounds(_)
CommentRounds(t) ==
    \/ t = <<>>
    \/ t = <<"upsertDailyStat">>
    \/ /\ Len(t) >= 1 /\ t[1] = "listComments"
       /\ \/ Len(t) = 1
          \/ /\ t[2] = "appendComments"
             /\ \/ Len(t) = 2
                \/ t[3] = "pause" /\ CommentRounds(SubSeq(t, 4, Len(t)))

StageOrder ==
    IsPrefix(trace, <<"listPosts", "transform", "appendPosts">>)
    \/ /\ IsPrefix(<<"listPosts", "transform", "appendPosts">>, trace)
       /\ CommentRounds(SubSeq(trace, 4, Len(trace)))

\* C3: the stages of a run occur in the fixed order, and comment extraction
\* and upsertDailyStat are entered only after appendPosts succeeded in that
\* run.
C3_StagesGatedOnSuccess ==
    /\ StageOrder
    /\ (pc \in {"select", "comments", "load_comments", "sleep", "stats"} => loadOk)
    /\ ((Has("listComments") \/ Has("upsertDailyStat")) => loadOk)

\* C4: the relation posts never holds two rows of one identifier.
C4_OneRowPerPostId == \A r1, r2 \in posts : r1.id = r2.id => r1 = r2

\* The batch is over, and its last run extracted a post that an earlier run
\* had stored with other attribute values.
C4_Witness ==
    /\ mainPc = "done" /\ Len(started) >= 2
    /\ \E i \in 1..Len(transformed_df) : \E r \in posts :
         r.id = transformed_df[i].id /\ r # transformed_df[i]

StoredIds == {r.id : r \in posts}

\* C5: when load_posts is given a row whose identifier is stored, the insert
\* fails and every stored row of such an identifier is in the relation
\* afterwards, unchanged and alone with its identifier.
C5_AppendNeverUpserts ==
    [][(pc = "load" /\ \E i \in 1..Len(transformed_df) :
                         transformed_df[i].id \in StoredIds)
       => /\ ~loadOk'
          /\ \A r \in posts :
               (\E i \in 1..Len(transformed_df) : transformed_df[i].id = r.id)
               => (r \in posts' /\ \A q \in posts' : q.id = r.id => q = r)]_vars

\* load_posts has just failed on a frame that brought new attribute values
\* for a stored identifier.
C5_Witness ==
    /\ pc \in {"select", "stats"} /\ ~loadOk
    /\ \E i \in 1..Len(transformed_df) : \E r \in posts :
         r.id = transformed_df[i].id /\ r.score # transformed_df[i].score

\* C6: the relation subreddit_stats never holds two rows of one
\* (subreddit, date) pair.
C6_OneStatRowPerKey ==
    \A s1, s2 \in subreddit_stats : SameKey(s1, s2) => s1 = s2

\* A rollup has just replaced the row of its key, and the new row counts two
\* posts: posts were added since the row it replaced was written.
C6_Witness ==
    /\ lastStat = "replace"
    /\ \E s \in subreddit_stats :
         s.subreddit = subreddit_name /\ s.date = today /\ s.total_posts = 2

\* C13: when the Source failed during extract_posts, whatever had been
\* fetched before, the call returned the empty list without raising and the
\* run returned right after the extraction, no other adapter called.
C13_ListPostsFailureYieldsEmpty ==
    ("extract_posts" \in failed) =>
        /\ posts_data = <<>>
        /\ pc = "returned"
        /\ trace = <<"listPosts">>

\* The listing of a later run failed after an earlier run had stored posts.
C13_Witness ==
    /\ "extract_posts" \in failed /\ pc = "returned"
    /\ Len(started) >= 2 /\ posts # {}

\* C14: no Store operation returns without having closed the connection it
\* opened: between the operations of a run no connection is left open.
C14_NoConnectionLeftOpen == ~conn_open

\* C15: a load_posts call leaves the relation posts either as it was or with
\* every row of the frame added to it, never with a part of the frame.
C15_AppendPostsAllOrNothing ==
    [][pc = "load" =>
         \/ posts' = posts
         \/ /\ posts' = posts \cup Range(transformed_df)
            /\ loadOk'
       ]_vars

\* A load_posts call has just failed on a frame that holds a stored identifier
\* and, before it, a post the store does not hold.
C15_Witness ==
    /\ trace # <<>> /\ trace[Len(trace)] = "appendPosts" /\ ~loadOk
    /\ \E i, j \in 1..Len(transformed_df) :
         /\ i < j
         /\ transformed_df[i].id \notin StoredIds
         /\ transformed_df[j].id \in StoredIds

\* C16: the comment stage runs listComments, appendComments, pause for one
\* selected post after the other, appendComments getting the comments listed
\* for that post; a failure of the Source in extract_comments or of the Store
\* in load_comments never raises out of the adapter, and a run that entered
\* the comment stage and returned has called extract_comments for every
\* selected post and then generate_subreddit_stats exactly once, last.
C16_CommentStageSurvivesFailures ==
    /\ IsPrefix(<<"listPosts", "transform", "appendPosts">>, trace)
         => CommentRounds(SubSeq(trace, 4, Len(trace)))
    /\ pc = "load_comments" =>
         \A i \in 1..Len(comments) : comments[i].post_id = called[Len(called)].post_id
    /\ (failed \cap {"extract_comments", "load_comments"} # {}) => pc # "raised"
    /\ (pc = "returned" /\ Has("listComments")) =>
         /\ Len(called) = Min(10, Len(transformed_df))
         /\ Cardinality({i \in 1..Len(trace) : trace[i] = "upsertDailyStat"}) = 1
         /\ trace[Len(trace)] = "upsertDailyStat"

\* A run returned after the Source failed in one post's extract_comments and
\* the Store failed in load_comments for the comments of post p1, the first
\* of the two posts the stage went through.
C16_Witness ==
    /\ pc = "returned" /\ Has("upsertDailyStat")
    /\ failed = {"extract_comments", "load_comments"}
    /\ Len(called) = 2 /\ called[1].post_id = "p1"

\* C17: when a run has returned after its rollup, every post of the frame it
\* transformed is in the relation posts.
C17_CompletedRunStoredItsPosts ==
    (pc = "returned" /\ Has("upsertDailyStat")) =>
        \A i \in 1..Len(transformed_df) : transformed_df[i].id \in StoredIds

\* C18: every row of the relation comments names a post that the relation
\* posts holds.
C18_NoOrphanComments ==
    \A c \in comments_tbl : c.post_id \in StoredIds

\* ------------------------------------------- the transformer on its own
\* transform_data applied to every batch extract_posts can hand it: the feeds
\* of up to MaxFeed posts whose scores sit on and around the bin edges and
\* around -1, and the one-post batches of every score of the span.
TransformScores == {-5, -2, -1, 0, 1, 10, 11, 100, 101, 1000, 1001}
TransformComments == {0, 3}

TransformBatches ==
    Feeds("python", posts_per_subreddit, TransformScores, TransformComments)
    \cup {<<p>> : p \in Submissions("python", (-ScoreSpan)..ScoreSpan, {3})}

TransformInit ==
    /\ subreddits = <<"python">>
    /\ extract_comments = TRUE
    /\ idx = 1
    /\ mainPc = "loop"
    /\ pc = "transform"
    /\ posts_data \in TransformBatches \ {<<>>}
    /\ transformed_df = <<>>
    /\ top_posts = <<>>
    /\ comments = <<>>
    /\ posts = {}
    /\ comments_tbl = {}
    /\ subreddit_stats = {}
    /\ today = 1
    /\ conn_open = FALSE
    /\ started = <<"python">>
    /\ trace = <<"listPosts">>
    /\ loadOk = FALSE
    /\ called = <<>>
    /\ failed = {}
    /\ lastStat = "none"

TransformSpec == TransformInit /\ [][TransformData]_vars

Transformed == Has("transform")

\* C8: the frame transform_data returns has one row per input post, in input
\* order, or no row at all: its row count is the input's or zero.
C8_RowCountAllOrNothing ==
    Transformed =>
        \/ Ids(transformed_df) = Ids(posts_data)
        \/ transformed_df = <<>>

\* A two-post batch holding a post of score -1 came out with both its rows.
C8_Witness ==
    /\ Transformed /\ Len(posts_data) = 2 /\ Len(transformed_df) = 2
    /\ \E i \in 1..2 : posts_data[i].score = -1

\* The boundary table the claim states, by plain comparisons.
CategoryByTable(s) ==
    IF s <= 0 THEN "Negative"
    ELSE IF s <= 10 THEN "Low"
    ELSE IF s <= 100 THEN "Medium"
    ELSE IF s <= 1000 THEN "High"
    ELSE "Viral"

\* C9: every transformed row's score_category is the bin of its score with
\* right-closed upper edges: <= 0 Negative, 1..10 Low, 11..100 Medium,
\* 101..1000 High, >= 1001 Viral.
C9_ScoreCategoryBins ==
    \A i \in 1..Len(transformed_df) :
        transformed_df[i].score_category = CategoryByTable(transformed_df[i].score)

\* Rows on both sides of an edge were binned: 1000 as High, 1001 as Viral.
C9_Witness ==
    /\ Len(transformed_df) = 2
    /\ \E i, j \in 1..2 :
         /\ transformed_df[i].score = 1000 /\ transformed_df[i].score_category = "High"
         /\ transformed_df[j].score = 1001 /\ transformed_df[j].score_category = "Viral"

\* C10: every transformed row's engagement_rate is the quotient of its
\* comment count by its score plus one, and that divisor is never zero.
C10_EngagementDivisorNonZero ==
    \A i \in 1..Len(transformed_df) :
        LET r == transformed_df[i]
        IN /\ r.score + 1 # 0
           /\ r.engagement_rate = Frac(r.num_comments, r.score + 1)

\* -------------------------------------------- the title cleaning on its own
\* transform_data applied to the one-post batches of every title of up to
\* MaxTitle characters.
Titles == SeqsUpTo(Chars, MaxTitle)

TitleBatches ==
    {<<[p EXCEPT !.title = t]>> : p \in Submissions("python", {5}, {3}), t \in Titles}

TitleInit ==
    /\ subreddits = <<"python">>
    /\ extract_comments = TRUE
    /\ idx = 1
    /\ mainPc = "loop"
    /\ pc = "transform"
    /\ posts_data \in TitleBatches
    /\ transformed_df = <<>>
    /\ top_posts = <<>>
    /\ comments = <<>>
    /\ posts = {}
    /\ comments_tbl = {}
    /\ subreddit_stats = {}
    /\ today = 1
    /\ conn_open = FALSE
    /\ started = <<"python">>
    /\ trace = <<"listPosts">>
    /\ loadOk = FALSE
    /\ called = <<>>
    /\ failed = {}
    /\ lastStat = "none"

TitleSpec == TitleInit /\ [][TransformData]_vars

\* C11: every cleaned title holds only alphanumeric and whitespace
\* characters, is what is left of the input title, in order, once every other
\* character is deleted and the ends are trimmed, and neither starts nor ends
\* with whitespace.
C11_TitleOnlyAlnumAndSpace ==
    \A i \in 1..Len(transformed_df) :
        LET given == posts_data[i].title
            out == transformed_df[i].title
        IN /\ \A k \in 1..Len(out) : out[k] \in Alnum \cup Whitespace
           /\ out = str_strip(SelectSeq(given, LAMBDA c : c \in Alnum \cup Whitespace))
           /\ out # <<>> => (out[1] \notin Whitespace /\ out[Len(out)] \notin Whitespace)

\* ------------------------------------------- the comment stage on its own
\* run_pipeline from the selection of the top posts to the end of the comment
\* loop, on every frame of up to MaxFrame posts whose scores tie and differ
\* in every arrangement, just loaded into an empty store.
FrameIds == <<"q01", "q02", "q03", "q04", "q05", "q06",
              "q07", "q08", "q09", "q10", "q11", "q12">>

Frames ==
    UNION {{[i \in 1..n |->
               EnrichRow([id |-> FrameIds[i], title |-> <<"a">>, subreddit |-> "python",
                          score |-> sc[i], num_comments |-> 3, created_utc |-> 1])] :
              sc \in [1..n -> PipelineScores]} : n \in 1..MaxFrame}

SelectInit ==
    /\ subreddits = <<"python">>
    /\ extract_comments = TRUE
    /\ idx = 1
    /\ mainPc = "loop"
    /\ pc = "select"
    /\ transformed_df \in Frames
    /\ posts_data = <<>>
    /\ top_posts = <<>>
    /\ comments = <<>>
    /\ posts = Range(transformed_df)
    /\ comments_tbl = {}
    /\ subreddit_stats = {}
    /\ today = 1
    /\ conn_open = FALSE
    /\ started = <<"python">>
    /\ trace = <<"listPosts", "transform", "appendPosts">>
    /\ loadOk = TRUE
    /\ called = <<>>
    /\ failed = {}
    /\ lastStat = "none"

SelectNext == SelectTop \/ ExtractComments \/ LoadComments \/ Sleep

SelectSpec == SelectInit /\ [][SelectNext]_vars

\* C12: with comment extraction enabled, when the comment loop of a run is
\* over, extract_comments was called once for each of min(10, n) distinct
\* posts of the n-row frame, every call with limit 20, and every post called
\* for beats every post left out: it has the higher score, or the same score
\* and the earlier place in the frame.
C12_TopTenByScoreGetComments ==
    (extract_comments /\ pc = "stats") =>
        LET n == Len(transformed_df)
            S == {i \in 1..n : \E k \in 1..Len(called) :
                                 called[k].post_id = transformed_df[i].id}
        IN /\ Len(called) = Min(10, n)
           /\ \A k, l \in 1..Len(called) :
                k # l => called[k].post_id # called[l].post_id
           /\ \A k \in 1..Len(called) :
                /\ called[k].limit = 20
                /\ \E i \in 1..n : transformed_df[i].id = called[k].post_id
           /\ \A i \in S, j \in (1..n) \ S :
                \/ transformed_df[i].score > transformed_df[j].score
                \/ /\ transformed_df[i].score = transformed_df[j].score
                   /\ i < j

\* The comment loop is over on a frame of more than ten posts whose left-out
\* post ties with an earlier post that was called for and lies before a
\* higher-scored post that was called for.
C12_Witness ==
    /\ extract_comments /\ pc = "stats"
    /\ Len(transformed_df) > 10 /\ Len(called) = 10
    /\ \E j \in 1..Len(transformed_df) :
         /\ \A k \in 1..Len(called) : called[k].post_id # transformed_df[j].id
         /\ \E i \in 1..(j - 1) :
              /\ transformed_df[i].score = transformed_df[j].score
              /\ \E k \in 1..Len(called) : called[k].post_id = transformed_df[i].id
         /\ \E i \in (j + 1)..Len(transformed_df) :
              /\ transformed_df[i].score > transformed_df[j].score
              /\ \E k \in 1..Len(called) : called[k].post_id = transformed_df[i].id

\* ------------------------------------------------- the rollup on its own
\* generate_subreddit_stats applied to the database file as the process may
\* find it. The file outlives the process and belongs to the Store, where
\* analysts query it and rows may have been pruned: its relations satisfy
\* their declared keys and nothing more (no constraint ties subreddit_stats
\* to posts).
PostTables ==
    {t \in SUBSET (UNION {Submissions(sub, PipelineScores, PipelineComments) :
                            sub \in SubNames}) :
        \A r1, r2 \in t : r1.id = r2.id => r1 = r2}

StoredTables == {{EnrichRow(r) : r \in t} : t \in PostTables}

\* The rows a rollup of (sub, day) can have written.
StatRowsOf(sub, day) ==
    {Aggregate(m, sub, day) : m \in {t \in StoredTables :
        t # {} /\ \A r \in t : r.subreddit = sub /\ r.created_utc = day}}

StatTables ==
    {t \in SUBSET (UNION {StatRowsOf(sub, day) : sub \in SubNames, day \in Dates}) :
        \A s1, s2 \in t : SameKey(s1, s2) => s1 = s2}

StatInit ==
    /\ \E sub \in SubNames : subreddits = <<sub>> /\ started = <<sub>>
    /\ extract_comments = FALSE
    /\ idx = 1
    /\ mainPc = "loop"
    /\ pc = "stats"
    /\ posts_data = <<>>
    /\ transformed_df = <<>>
    /\ top_posts = <<>>
    /\ comments = <<>>
    /\ posts \in StoredTables
    /\ comments_tbl = {}
    /\ subreddit_stats \in StatTables
    /\ today \in Dates
    /\ conn_open = FALSE
    /\ trace = <<>>
    /\ loadOk = FALSE
    /\ called = <<>>
    /\ failed = {}
    /\ lastStat = "none"

StatSpec == StatInit /\ [][GenerateStats]_vars

\* C7: when the rollup of a subreddit has run its statement, the row of
\* (subreddit, today) is the aggregate of the posts stored for that
\* subreddit and date: there is such a row when a post matches, and any row
\* of that key counts exactly the matching posts, with their maximum score
\* and their mean score.
C7_StatRowIsFullRecompute ==
    (Has("upsertDailyStat") /\ lastStat # "error") =>
        LET m == Matching(posts, subreddit_name, today)
            rows == {s \in subreddit_stats :
                       s.subreddit = subreddit_name /\ s.date = today}
        IN /\ (m # {} => rows # {})
           /\ \A s \in rows :
                /\ s.total_posts = Cardinality(m)
                /\ m # {} => /\ s.top_post_score = MaxScore(m)
                             /\ s.avg_score = Frac(SumScore(m), Cardinality(m))
====
